---- MODULE Spec2Model ----
(***************************************************************************)
(* Model of the fork discovery engine of spork (src/src/queries.ts):       *)
(* class API with its cached repository, fork-listing cursor and fork      *)
(* registry, the response flatteners and the divergence query builder.     *)
(*                                                                         *)
(* Conventions                                                             *)
(*   - a JavaScript value that may be null/undefined and is otherwise an   *)
(*     object or a number is an Option: None == <<>>, Some(v) == <<v>>;    *)
(*   - a string that may be null/undefined uses the strings "null" and     *)
(*     "undefined";                                                        *)
(*   - the Map #forks is the sequence of its [key, value] entries in       *)
(*     insertion order (the iteration order of a JavaScript Map);          *)
(*   - one action is one public operation run to completion (sequential    *)
(*     use: the caller awaits each call before the next).                  *)
(***************************************************************************)
EXTENDS Integers, Sequences, FiniteSets, TLC

VARIABLES
  repo,          \* API.repo: Option of Repo
  forksCursor,   \* API.#forksCursor: Option of PageInfo
  forksMap,      \* API.#forks: sequence of [key, value] entries
  repoQueries,   \* history: number of repository queries issued so far
  lastPage,      \* history: Option of the pageInfo of the last fork page received
  merged,        \* history: per fork id, the fork last returned by a successful getDiffs
  pending,       \* the getForks calls suspended at an await, in order of invocation
  lastOp,        \* the operation run by the last step
  outcome,       \* "ok" (returned) or "error" (threw) for the last step
  args,          \* the argument of the last operation, as a sequence
  sent,          \* the requests issued by the last operation, in order
  recv,          \* the responses to them, in order
  ret            \* the value returned by the last operation, as a sequence

vars == <<repo, forksCursor, forksMap, repoQueries, lastPage, merged, pending,
          lastOp, outcome, args, sent, recv, ret>>

----------------------------------------------------------------------------
(* Bounds of the model *)

\* longest fork list passed to getDiffs
MaxBatch == 2
\* number of repository queries the transport may fail
MaxRepoFailures == 1
\* most getForks calls suspended at the same time
MaxPending == 2
\* default page size of getForks
DefaultCount == 100

----------------------------------------------------------------------------
(* Option values and small helpers *)

None == <<>>
Some(v) == <<v>>
Get(o) == o[1]

Range(s) == {s[i] : i \in DOMAIN s}

RECURSIVE SeqsUpTo(_, _)
SeqsUpTo(S, n) ==
  IF n = 0 THEN {<<>>}
  ELSE LET shorter == SeqsUpTo(S, n - 1)
       IN  shorter \cup {Append(s, x) : s \in {t \in shorter : Len(t) = n - 1}, x \in S}

----------------------------------------------------------------------------
(* What the remote API can answer *)

\* pushedAt is an ISO timestamp; new Date(...) parses it to a time value
ParseDate(iso) ==
  CASE iso = "2024-01-01T00:00:00Z" -> 1704067200
    [] iso = "2024-06-01T00:00:00Z" -> 1717200000
    [] OTHER -> -1

RawNode(id, owner, desc, pushed, forkCount, publicForks, stars, branches) ==
  [id |-> id,
   name |-> "spork",
   owner |-> [login |-> owner],
   description |-> desc,
   url |-> <<"https://github.com", owner, "spork">>,
   pushedAt |-> pushed,
   forkCount |-> forkCount,
   forks |-> [totalCount |-> publicForks],
   stargazers |-> [totalCount |-> stars],
   watchers |-> [totalCount |-> stars],
   defaultBranchRef |-> [name |-> "main"],
   refs |-> [nodes |-> [i \in DOMAIN branches |-> [name |-> branches[i]]]]]

\* the repository query does not select id, so the upstream node has none
RawUpstreams ==
  { RawNode("undefined", "konradh", "fork finder", "2024-01-01T00:00:00Z", 0, 0, 2, <<"main">>),
    RawNode("undefined", "konradh", "fork finder", "2024-06-01T00:00:00Z", 5, 3, 2, <<"main">>) }

\* the fork nodes the remote lists
RawF1 == RawNode("F1", "alice", "my fork", "2024-06-01T00:00:00Z", 1, 1, 4, <<"main", "feature-x">>)
\* forkCount and forks.totalCount are separate fields of a node: F2's
\* forkCount is behind its list of public forks
RawF2 == RawNode("F2", "bob", "fork finder", "2024-01-01T00:00:00Z", 1, 2, 3, <<"dev", "main">>)
RawForkNodes == {RawF1, RawF2}

PageInfos ==
  { [hasNextPage |-> TRUE, endCursor |-> "c1"],
    [hasNextPage |-> TRUE, endCursor |-> "c2"],
    [hasNextPage |-> FALSE, endCursor |-> "c2"] }

RawCommit(oid) ==
  [oid |-> oid, messageHeadline |-> "fix", committedDate |-> "2024-06-01T00:00:00Z",
   additions |-> 3, deletions |-> 1]

\* a comparison the remote computes for a head reference
RawDiffs ==
  { [aheadBy |-> 0, behindBy |-> 2, commits |-> [nodes |-> <<>>]],
    [aheadBy |-> 2, behindBy |-> 0, commits |-> [nodes |-> <<RawCommit("a1"), RawCommit("b2")>>]] }

----------------------------------------------------------------------------
(* Response flattener *)

flattenRepo(r) ==
  [id |-> r.id,
   name |-> r.name,
   owner |-> r.owner.login,
   description |-> r.description,
   url |-> r.url,
   pushedAt |-> ParseDate(r.pushedAt),
   forkCount |-> r.forkCount,
   publicForkCount |-> r.forks.totalCount,
   privateForkCount |-> r.forkCount - r.forks.totalCount,
   stars |-> r.stargazers.totalCount,
   watchers |-> r.watchers.totalCount,
   defaultBranch |-> r.defaultBranchRef.name,
   branches |-> [i \in DOMAIN r.refs.nodes |-> r.refs.nodes[i].name]]

flattenDiff(f) ==
  [aheadBy |-> f.aheadBy,
   behindBy |-> f.behindBy,
   commits |-> [i \in DOMAIN f.commits.nodes |->
                  [commitId |-> f.commits.nodes[i].oid,
                   message |-> f.commits.nodes[i].messageHeadline,
                   additions |-> f.commits.nodes[i].additions,
                   deletions |-> f.commits.nodes[i].deletions,
                   committedDate |-> f.commits.nodes[i].committedDate]]]

\* utils.listDiff: the elements of a that are not in b, in a's order
listDiff(a, b) == SelectSeq(a, LAMBDA x : x \notin Range(b))

extendedForkInfo(f, r) ==
  [descriptionChanged |-> f.description # r.description,
   newBranches |-> listDiff(f.branches, r.branches)]

\* score.score: a pure, total, numeric function of a fork and the upstream
score(f, r) ==
  (f.stars - r.stars) + 2 * f.diff.aheadBy - f.diff.behindBy
    + Len(f.extendedInfo.newBranches)

----------------------------------------------------------------------------
(* Query catalog and transport *)

\* API.#query: the owner and name the engine was constructed with
query == [owner |-> "konradh", name |-> "spork"]

\* the transport threw (network failure, rate limit, GraphQL errors)
Failed == [ok |-> FALSE]

\* answers to the paginated repository query; the transport fails at most
\* MaxRepoFailures of them
RepoAnswers ==
  {[ok |-> TRUE, repository |-> u] : u \in RawUpstreams}
    \cup (IF repoQueries < MaxRepoFailures THEN {Failed} ELSE {})

\* an answer that no request asks for changes nothing: where the engine
\* holds the repository already, one answer stands for all of them
RepoAnswersNow ==
  IF repo # None
  THEN {CHOOSE a \in RepoAnswers : a.ok /\ a.repository.forks.totalCount > 0}
  ELSE RepoAnswers

\* the pages the remote can return for a fork-listing query
ForkPages == {<<>>, <<RawF1, RawF2>>, <<RawF2>>}

ForkAnswers ==
  {[ok |-> TRUE, repository |-> [forks |-> [pageInfo |-> p, nodes |-> ns]]] :
      p \in PageInfos, ns \in ForkPages}
    \cup {Failed}

\* the head references the remote knows, and what it answers for a
\* divergence query: a comparison per head reference (None: the comparison
\* is missing from the response; two forks never compare alike), no base
\* ref at all, or a failure
HeadRefs == {<<f.owner.login, f.name, f.defaultBranchRef.name>> : f \in RawForkNodes}

Comparisons ==
  {c \in [HeadRefs -> {None} \cup {Some(d) : d \in RawDiffs}] :
     \A g, h \in HeadRefs : g # h => c[g] # c[h]}

DiffAnswers ==
  {[ok |-> TRUE, compare |-> Some(c)] : c \in Comparisons}
    \cup {[ok |-> TRUE, compare |-> None], Failed}

\* an empty fork list asks for no comparison: one answer stands for all
DiffAnswersFor(fs) ==
  IF fs = <<>> THEN {CHOOSE a \in DiffAnswers : a.ok /\ a.compare = None} ELSE DiffAnswers

\* the response document of the divergence query: under each alias of the
\* document, the comparison of that sub-query's head reference
DiffResponse(doc, answer) ==
  IF ~answer.ok THEN Failed
  ELSE IF answer.compare = None THEN [ok |-> TRUE, repository |-> [ref |-> None]]
  ELSE [ok |-> TRUE,
        repository |-> [ref |-> Some([a \in {q.alias : q \in Range(doc.forkQueries)} |->
            LET q == CHOOSE q \in Range(doc.forkQueries) : q.alias = a
            IN  IF q.headRef \in HeadRefs THEN Get(answer.compare)[q.headRef] ELSE None])]]

----------------------------------------------------------------------------
(* Discovery engine: class API *)

\* Map.prototype.set: replace the value of an existing key in place, or
\* append a new entry
MapSet(map, k, v) ==
  IF \E i \in DOMAIN map : map[i].key = k
  THEN [i \in DOMAIN map |-> IF map[i].key = k THEN [key |-> k, value |-> v] ELSE map[i]]
  ELSE Append(map, [key |-> k, value |-> v])

MapValues(map) == [i \in DOMAIN map |-> map[i].value]

\* b.forkScore ?? 0
ScoreOrZero(f) == IF f.forkScore = None THEN 0 ELSE Get(f.forkScore)

\* Array.prototype.sort with the comparator of forks(): a stable sort that
\* puts a before b when (b.forkScore ?? 0) - (a.forkScore ?? 0) < 0
RECURSIVE InsertByScore(_, _)
InsertByScore(sorted, x) ==
  IF sorted = <<>> THEN <<x>>
  ELSE IF ScoreOrZero(x) - ScoreOrZero(Head(sorted)) > 0 THEN <<x>> \o sorted
  ELSE <<Head(sorted)>> \o InsertByScore(Tail(sorted), x)

RECURSIVE SortByScore(_)
SortByScore(s) ==
  IF s = <<>> THEN <<>>
  ELSE InsertByScore(SortByScore(SubSeq(s, 1, Len(s) - 1)), s[Len(s)])

\* forks() without the sort
forks_InsertionOrder == MapValues(forksMap)

forks == SortByScore(MapValues(forksMap))

\* canLoadMore() deciding on the cursor rather than on hasNextPage
canLoadMore_ByEndCursor ==
  forksCursor = None \/ Get(forksCursor).endCursor # "null"

canLoadMore == forksCursor = None \/ Get(forksCursor).hasNextPage

RepoRequest == [kind |-> "repo", document |-> "Repo", variables |-> query]

\* getRepo without the cache check
getRepo_NoCache(answer) ==
  IF ~answer.ok
  THEN [threw |-> TRUE, repo |-> repo, value |-> None,
        sent |-> <<RepoRequest>>, recv |-> <<answer>>]
  ELSE [threw |-> FALSE,
        repo |-> Some(flattenRepo(answer.repository)),
        value |-> Some(flattenRepo(answer.repository)),
        sent |-> <<RepoRequest>>, recv |-> <<answer>>]

\* getRepo with the transport's answer to the repository query, should one
\* be issued: the new this.repo, the value returned unless it threw, and
\* the traffic
getRepo(answer) ==
  IF repo # None
  THEN [threw |-> FALSE, repo |-> repo, value |-> repo, sent |-> <<>>, recv |-> <<>>]
  ELSE IF ~answer.ok
  THEN [threw |-> TRUE, repo |-> repo, value |-> None,
        sent |-> <<RepoRequest>>, recv |-> <<answer>>]
  ELSE [threw |-> FALSE,
        repo |-> Some(flattenRepo(answer.repository)),
        value |-> Some(flattenRepo(answer.repository)),
        sent |-> <<RepoRequest>>, recv |-> <<answer>>]

\* the fork-listing request always asking for the first page
ForksRequest_NullCursor(count) ==
  [kind |-> "forks", document |-> "Forks",
   variables |-> [owner |-> query.owner, name |-> query.name,
                  cursor |-> "null",
                  count |-> count]]

ForksRequest(count) ==
  [kind |-> "forks", document |-> "Forks",
   variables |-> [owner |-> query.owner, name |-> query.name,
                  cursor |-> IF forksCursor = None THEN "null"
                             ELSE Get(forksCursor).endCursor,
                  count |-> count]]

\* Map.prototype.set of every fork of a page, none of them scored
RECURSIVE SetUnscored(_, _)
SetUnscored(map, fs) ==
  IF fs = <<>> THEN map
  ELSE SetUnscored(MapSet(map, Head(fs).id, [forkScore |-> None] @@ Head(fs)), Tail(fs))

\* getForks from the fork-listing query on, merging the page into the
\* registry (line 235 not commented out, the forks not scored)
forksPage_MergeUnscored(count, g, forkAnswer) ==
  IF ~forkAnswer.ok
  THEN [threw |-> TRUE, repo |-> g.repo,
        forksCursor |-> forksCursor, forksMap |-> forksMap,
        ret |-> <<>>,
        sent |-> Append(g.sent, ForksRequest(count)),
        recv |-> Append(g.recv, forkAnswer)]
  ELSE LET rawForks == forkAnswer.repository.forks
           forkRepos == [i \in DOMAIN rawForks.nodes |-> flattenRepo(rawForks.nodes[i])]
       IN  [threw |-> FALSE, repo |-> g.repo,
            forksCursor |-> Some(rawForks.pageInfo),
            forksMap |-> SetUnscored(forksMap, forkRepos),
            ret |-> forkRepos,
            sent |-> Append(g.sent, ForksRequest(count)),
            recv |-> Append(g.recv, forkAnswer)]

\* getForks from the fork-listing query on, forgetting the cursor when the
\* query fails
forksPage_ResetOnFailure(count, g, forkAnswer) ==
  IF ~forkAnswer.ok
  THEN [threw |-> TRUE, repo |-> g.repo,
        forksCursor |-> None, forksMap |-> forksMap,
        ret |-> <<>>,
        sent |-> Append(g.sent, ForksRequest(count)),
        recv |-> Append(g.recv, forkAnswer)]
  ELSE LET rawForks == forkAnswer.repository.forks
       IN  [threw |-> FALSE, repo |-> g.repo,
            forksCursor |-> Some(rawForks.pageInfo),
            forksMap |-> forksMap,
            ret |-> [i \in DOMAIN rawForks.nodes |-> flattenRepo(rawForks.nodes[i])],
            sent |-> Append(g.sent, ForksRequest(count)),
            recv |-> Append(g.recv, forkAnswer)]

\* getForks from the fork-listing query on: lines 227-237
forksPage(count, g, forkAnswer) ==
  IF ~forkAnswer.ok
  THEN [threw |-> TRUE, repo |-> g.repo,
        forksCursor |-> forksCursor, forksMap |-> forksMap,
        ret |-> <<>>,
        sent |-> Append(g.sent, ForksRequest(count)),
        recv |-> Append(g.recv, forkAnswer)]
  ELSE LET rawForks == forkAnswer.repository.forks
       IN  [threw |-> FALSE, repo |-> g.repo,
            forksCursor |-> Some(rawForks.pageInfo),
            forksMap |-> forksMap,
            ret |-> [i \in DOMAIN rawForks.nodes |-> flattenRepo(rawForks.nodes[i])],
            sent |-> Append(g.sent, ForksRequest(count)),
            recv |-> Append(g.recv, forkAnswer)]

\* getForks past the canLoadMore gate, without the public fork count check
forksBody_NoZeroCheck(count, repoAnswer, forkAnswer) ==
  LET g == getRepo(repoAnswer)
  IN  IF g.threw
      THEN [threw |-> TRUE, repo |-> g.repo,
        forksCursor |-> forksCursor, forksMap |-> forksMap,
            ret |-> <<>>, sent |-> g.sent, recv |-> g.recv]
      ELSE forksPage(count, g, forkAnswer)

\* getForks past the canLoadMore gate: lines 223-237
forksBody(count, repoAnswer, forkAnswer) ==
  LET g == getRepo(repoAnswer)
  IN  IF g.threw
      THEN [threw |-> TRUE, repo |-> g.repo,
        forksCursor |-> forksCursor, forksMap |-> forksMap,
            ret |-> <<>>, sent |-> g.sent, recv |-> g.recv]
      ELSE IF g.value = None \/ Get(g.value).publicForkCount = 0
      THEN [threw |-> FALSE, repo |-> g.repo,
        forksCursor |-> forksCursor, forksMap |-> forksMap,
            ret |-> <<>>, sent |-> g.sent, recv |-> g.recv]
      ELSE forksPage(count, g, forkAnswer)

\* getForks without the canLoadMore gate
getForks_NoGate(count, repoAnswer, forkAnswer) ==
  forksBody(count, repoAnswer, forkAnswer)

getForks(count, repoAnswer, forkAnswer) ==
  IF ~canLoadMore
  THEN [threw |-> FALSE, repo |-> repo,
        forksCursor |-> forksCursor, forksMap |-> forksMap,
        ret |-> <<>>, sent |-> <<>>, recv |-> <<>>]
  ELSE forksBody(count, repoAnswer, forkAnswer)

\* the alias `fork${i}`, i counted from 0
Alias(i) == <<"fork", i>>

\* the divergence document: head, the aliased comparisons, tail
buildDiffQuery(fs) ==
  [head |-> "Diff",
   forkQueries |-> [i \in DOMAIN fs |->
      [alias |-> Alias(i - 1),
       headRef |-> <<fs[i].owner, fs[i].name, fs[i].defaultBranch>>]],
   tail |-> "}"]

\* #mergeForks keeping the entry a fork id already has
RECURSIVE mergeForks_FirstWriteWins(_, _, _)
mergeForks_FirstWriteWins(r, map, fs) ==
  IF r = None THEN [map |-> map, forks |-> fs]
  ELSE IF fs = <<>> THEN [map |-> map, forks |-> <<>>]
  ELSE LET fork == [forkScore |-> Some(score(Head(fs), Get(r)))] @@ Head(fs)
           next == IF \E i \in DOMAIN map : map[i].key = fork.id
                   THEN map ELSE MapSet(map, fork.id, fork)
           rest == mergeForks_FirstWriteWins(r, next, Tail(fs))
       IN  [map |-> rest.map, forks |-> <<fork>> \o rest.forks]

\* #mergeForks: score each fork against this.repo and set it in the Map, in
\* order; the forks are scored in place, so the caller's list changes too
RECURSIVE mergeForks(_, _, _)
mergeForks(r, map, fs) ==
  IF r = None THEN [map |-> map, forks |-> fs]
  ELSE IF fs = <<>> THEN [map |-> map, forks |-> <<>>]
  ELSE LET fork == [forkScore |-> Some(score(Head(fs), Get(r)))] @@ Head(fs)
           rest == mergeForks(r, MapSet(map, fork.id, fork), Tail(fs))
       IN  [map |-> rest.map, forks |-> <<fork>> \o rest.forks]

\* rawDiffs.repository.ref[alias]: None when the property is absent
RefAt(ref, alias) == IF alias \in DOMAIN ref THEN ref[alias] ELSE None

\* the map callback, reading the comparison of the first alias for every fork
extendFork_FirstAlias(fork, i, ref, r) ==
  [diff |-> flattenDiff(Get(RefAt(ref, Alias(0)))),
   extendedInfo |-> extendedForkInfo(fork, r)] @@ fork

\* the map callback of getDiffs for the fork at index i (from 0): the fork's
\* own fields, its diff and its extended info
extendFork(fork, i, ref, r) ==
  [diff |-> flattenDiff(Get(RefAt(ref, Alias(i)))),
   extendedInfo |-> extendedForkInfo(fork, r)] @@ fork

\* the tail of getDiffs, returning the registry's values
diffsTail_ReturnRegistry(fs, g, ref) ==
  IF \E i \in DOMAIN fs : RefAt(ref, Alias(i - 1)) = None
  THEN [threw |-> TRUE, forksMap |-> forksMap, ret |-> <<>>]
  ELSE LET extendedForks == [i \in DOMAIN fs |-> extendFork(fs[i], i - 1, ref, Get(g.value))]
           m == mergeForks(g.repo, forksMap, extendedForks)
       IN  [threw |-> FALSE, forksMap |-> m.map, ret |-> MapValues(m.map)]

\* the tail of getDiffs, merging each fork as soon as it is extended
diffsTail_MergeAsYouGo(fs, g, ref) ==
  LET missing == {i \in DOMAIN fs : RefAt(ref, Alias(i - 1)) = None}
      n == IF missing = {} THEN Len(fs)
           ELSE (CHOOSE i \in missing : \A j \in missing : i <= j) - 1
      extendedForks == [i \in 1..n |-> extendFork(fs[i], i - 1, ref, Get(g.value))]
      m == mergeForks(g.repo, forksMap, extendedForks)
  IN  [threw |-> missing # {}, forksMap |-> m.map,
       ret |-> IF missing # {} THEN <<>> ELSE m.forks]

\* the tail of getDiffs, lines 247-257: flattenDiff throws on the first
\* alias the response lacks, before anything is merged; otherwise every fork
\* is extended, the batch is merged and returned
diffsTail(fs, g, ref) ==
  IF \E i \in DOMAIN fs : RefAt(ref, Alias(i - 1)) = None
  THEN [threw |-> TRUE, forksMap |-> forksMap, ret |-> <<>>]
  ELSE LET extendedForks == [i \in DOMAIN fs |-> extendFork(fs[i], i - 1, ref, Get(g.value))]
           m == mergeForks(g.repo, forksMap, extendedForks)
       IN  [threw |-> FALSE, forksMap |-> m.map, ret |-> m.forks]

\* getDiffs past the empty-list check: lines 244-257
diffsBody(fs, repoAnswer, diffAnswer) ==
  LET g == getRepo(repoAnswer)
  IN  IF g.threw
      THEN [threw |-> TRUE, repo |-> g.repo, forksMap |-> forksMap,
            ret |-> <<>>, sent |-> g.sent, recv |-> g.recv]
      ELSE
  LET doc == buildDiffQuery(fs)
      request == [kind |-> "diff", document |-> doc,
                  variables |-> [owner |-> query.owner, name |-> query.name,
                                 baseBranch |-> Get(g.value).defaultBranch]]
      rawDiffs == DiffResponse(doc, diffAnswer)
      traffic == [sent |-> Append(g.sent, request), recv |-> Append(g.recv, rawDiffs)]
  IN  IF ~rawDiffs.ok \/ rawDiffs.repository.ref = None
      THEN [threw |-> TRUE, repo |-> g.repo, forksMap |-> forksMap, ret |-> <<>>] @@ traffic
      ELSE [repo |-> g.repo] @@ diffsTail(fs, g, Get(rawDiffs.repository.ref)) @@ traffic

\* getDiffs without the empty-list check
getDiffs_NoEmptyCheck(fs, repoAnswer, diffAnswer) ==
  diffsBody(fs, repoAnswer, diffAnswer)

getDiffs(fs, repoAnswer, diffAnswer) ==
  IF Len(fs) = 0
  THEN [threw |-> FALSE, repo |-> repo, forksMap |-> forksMap,
        ret |-> <<>>, sent |-> <<>>, recv |-> <<>>]
  ELSE diffsBody(fs, repoAnswer, diffAnswer)

----------------------------------------------------------------------------
(* The state machine: one caller, one call at a time *)

\* page sizes the caller asks for
Counts == {1, DefaultCount}

\* fork lists the caller passes to getDiffs
Batches == SeqsUpTo({flattenRepo(n) : n \in RawForkNodes}, MaxBatch)

RepoRequestsIn(s) == Cardinality({i \in DOMAIN s : s[i].kind = "repo"})

\* the fork page received by the last operation, if any
PageReceived(s, r) ==
  IF \E i \in DOMAIN s : s[i].kind = "forks" /\ r[i].ok
  THEN LET i == CHOOSE i \in DOMAIN s : s[i].kind = "forks" /\ r[i].ok
       IN  Some(r[i].repository.forks.pageInfo)
  ELSE None

\* per id, the fork at the last index of a returned batch that carries the id
LastById(batch, old) ==
  {f \in old : \A i \in DOMAIN batch : batch[i].id # f.id}
    \cup {batch[i] : i \in {j \in DOMAIN batch :
                              \A k \in DOMAIN batch : batch[k].id = batch[j].id => k <= j}}

Init ==
  /\ repo = None
  /\ forksCursor = None
  /\ forksMap = <<>>
  /\ repoQueries = 0
  /\ lastPage = None
  /\ merged = {}
  /\ pending = <<>>
  /\ lastOp = "new"
  /\ outcome = "ok"
  /\ args = <<>>
  /\ sent = <<>>
  /\ recv = <<>>
  /\ ret = <<>>

Forks ==
  /\ lastOp' = "forks"
  /\ outcome' = "ok"
  /\ args' = <<>>
  /\ sent' = <<>>
  /\ recv' = <<>>
  /\ ret' = forks
  /\ UNCHANGED <<repo, forksCursor, forksMap, repoQueries, lastPage, merged, pending>>

CanLoadMore ==
  /\ lastOp' = "canLoadMore"
  /\ outcome' = "ok"
  /\ args' = <<>>
  /\ sent' = <<>>
  /\ recv' = <<>>
  /\ ret' = <<canLoadMore>>
  /\ UNCHANGED <<repo, forksCursor, forksMap, repoQueries, lastPage, merged, pending>>

GetRepo ==
  \E answer \in RepoAnswersNow :
    \E g \in {getRepo(answer)} :
        /\ lastOp' = "getRepo"
        /\ outcome' = IF g.threw THEN "error" ELSE "ok"
        /\ args' = <<>>
        /\ sent' = g.sent
        /\ recv' = g.recv
        /\ ret' = g.value
        /\ repo' = g.repo
        /\ repoQueries' = repoQueries + RepoRequestsIn(g.sent)
        /\ UNCHANGED <<forksCursor, forksMap, lastPage, merged, pending>>

\* a getForks call run to completion with the given answers
GetForksWith(count, repoAnswer, forkAnswer) ==
    \E g \in {getForks(count, repoAnswer, forkAnswer)} :
        /\ lastOp' = "getForks"
        /\ outcome' = IF g.threw THEN "error" ELSE "ok"
        /\ args' = <<count>>
        /\ sent' = g.sent
        /\ recv' = g.recv
        /\ ret' = g.ret
        /\ repo' = g.repo
        /\ forksCursor' = g.forksCursor
        /\ forksMap' = g.forksMap
        /\ repoQueries' = repoQueries + RepoRequestsIn(g.sent)
        /\ \E page \in {PageReceived(g.sent, g.recv)} :
             lastPage' = IF page # None THEN page ELSE lastPage
        /\ UNCHANGED <<merged, pending>>

GetForks ==
  \E count \in Counts, repoAnswer \in RepoAnswersNow, forkAnswer \in ForkAnswers :
    GetForksWith(count, repoAnswer, forkAnswer)

\* a getDiffs call run to completion with the given answers
GetDiffsWith(fs, repoAnswer, diffAnswer) ==
    \E g \in {getDiffs(fs, repoAnswer, diffAnswer)} :
        /\ lastOp' = "getDiffs"
        /\ outcome' = IF g.threw THEN "error" ELSE "ok"
        /\ args' = fs
        /\ sent' = g.sent
        /\ recv' = g.recv
        /\ ret' = g.ret
        /\ repo' = g.repo
        /\ forksMap' = g.forksMap
        /\ repoQueries' = repoQueries + RepoRequestsIn(g.sent)
        /\ merged' = IF g.threw THEN merged ELSE LastById(g.ret, merged)
        /\ UNCHANGED <<forksCursor, lastPage, pending>>

GetDiffs ==
  \E fs \in Batches, repoAnswer \in RepoAnswersNow :
    \E diffAnswer \in DiffAnswersFor(fs) :
      GetDiffsWith(fs, repoAnswer, diffAnswer)

Next == GetRepo \/ GetForks \/ GetDiffs \/ Forks \/ CanLoadMore

Spec == Init /\ [][Next]_vars

----------------------------------------------------------------------------
(* A caller that pages through the forks with canLoadMore() as its only
   gate, diffing the pages it lists; every query succeeds and the remote
   holds finitely many pages *)

\* the order of the cursors the remote hands out
CursorRank(c) ==
  CASE c = "null" -> 0
    [] c = "c1" -> 1
    [] c = "c2" -> 2

\* the pages of a finite listing: the last one, or one that ends further on
\* than the cursor asked for
LoopForkAnswers ==
  LET asked == IF forksCursor = None THEN "null" ELSE Get(forksCursor).endCursor
  IN  {a \in ForkAnswers :
         /\ a.ok
         /\ \/ ~a.repository.forks.pageInfo.hasNextPage
            \/ CursorRank(a.repository.forks.pageInfo.endCursor) > CursorRank(asked)}

\* while (api.canLoadMore())
LoopCheck ==
  /\ lastOp # "canLoadMore"
  /\ CanLoadMore

\* await api.getForks(count)
LoopFetch ==
  /\ lastOp = "canLoadMore" /\ ret = <<TRUE>>
  /\ \E count \in Counts, repoAnswer \in {a \in RepoAnswersNow : a.ok},
        forkAnswer \in LoopForkAnswers :
       GetForksWith(count, repoAnswer, forkAnswer)

\* await api.getDiffs(page)
LoopDiffs ==
  /\ lastOp = "getForks" /\ ret # <<>>
  /\ \E repoAnswer \in {a \in RepoAnswersNow : a.ok},
        diffAnswer \in {a \in DiffAnswers : a.ok /\ a.compare # None} :
       GetDiffsWith(ret, repoAnswer, diffAnswer)

LoopNext == LoopCheck \/ LoopFetch \/ LoopDiffs

LoopSpec == Init /\ [][LoopNext]_vars /\ WF_vars(LoopCheck) /\ WF_vars(LoopFetch)

----------------------------------------------------------------------------
(* Overlapping getForks calls: a call runs from its invocation to its first
   await, and from each await, once the awaited promise settles, to the
   next; other calls run in between *)

\* getForks from its invocation to await this.getRepo(), lines 219-223 with
\* lines 210-214 of getRepo: the call returns at the gate, or is suspended
\* with the repository getRepo returned, or behind getRepo's own query
invokeForks(count) ==
  IF ~canLoadMore
  THEN [done |-> TRUE, calls |-> <<>>, sent |-> <<>>]
  ELSE IF repo # None
  THEN [done |-> FALSE, sent |-> <<>>,
        calls |-> <<[pc |-> "repo", count |-> count, fetching |-> FALSE, value |-> repo]>>]
  ELSE [done |-> FALSE, sent |-> <<RepoRequest>>,
        calls |-> <<[pc |-> "repo", count |-> count, fetching |-> TRUE, value |-> None]>>]

\* getForks from await this.getRepo() to the fork-listing query, lines
\* 223-231 with lines 214-216 of getRepo: the cursor is read here
afterRepo(call, answer) ==
  IF call.fetching /\ ~answer.ok
  THEN [threw |-> TRUE, done |-> TRUE, repo |-> repo, calls |-> <<>>,
        sent |-> <<>>, recv |-> <<answer>>]
  ELSE LET value == IF call.fetching THEN Some(flattenRepo(answer.repository))
                    ELSE call.value
           received == IF call.fetching THEN <<answer>> ELSE <<>>
       IN  IF value = None \/ Get(value).publicForkCount = 0
           THEN [threw |-> FALSE, done |-> TRUE,
                 repo |-> IF call.fetching THEN value ELSE repo,
                 calls |-> <<>>, sent |-> <<>>, recv |-> received]
           ELSE [threw |-> FALSE, done |-> FALSE,
                 repo |-> IF call.fetching THEN value ELSE repo,
                 calls |-> <<[pc |-> "forks", count |-> call.count,
                              fetching |-> FALSE, value |-> value]>>,
                 sent |-> <<ForksRequest(call.count)>>, recv |-> received]

\* getForks from the fork-listing query's answer to its return, lines 227-237
afterPage(call, answer) ==
  IF ~answer.ok
  THEN [threw |-> TRUE, forksCursor |-> forksCursor, ret |-> <<>>]
  ELSE LET rawForks == answer.repository.forks
       IN  [threw |-> FALSE,
            forksCursor |-> Some(rawForks.pageInfo),
            ret |-> [i \in DOMAIN rawForks.nodes |-> flattenRepo(rawForks.nodes[i])]]

\* the answers to the repository query a suspended call waits for: the
\* query was counted when it was sent, and a call that was handed the cached
\* repository waits for none, so one answer stands for all of them
RepoAnswersTo(call) ==
  IF call.fetching
  THEN {[ok |-> TRUE, repository |-> u] : u \in RawUpstreams}
         \cup (IF repoQueries <= MaxRepoFailures THEN {Failed} ELSE {})
  ELSE {CHOOSE a \in RepoAnswers : a.ok}

\* the suspended calls with call i replaced by calls (none or one)
Resumed(i, calls) ==
  SubSeq(pending, 1, i - 1) \o calls \o SubSeq(pending, i + 1, Len(pending))

ForksInvoke ==
  /\ Len(pending) < MaxPending
  /\ \E count \in Counts :
     \E g \in {invokeForks(count)} :
        /\ lastOp' = "getForks"
        /\ outcome' = IF g.done THEN "ok" ELSE "pending"
        /\ args' = <<count>>
        /\ sent' = g.sent
        /\ recv' = <<>>
        /\ ret' = <<>>
        /\ pending' = pending \o g.calls
        /\ repoQueries' = repoQueries + RepoRequestsIn(g.sent)
        /\ UNCHANGED <<repo, forksCursor, forksMap, lastPage, merged>>

ForksAfterRepo ==
  \E i \in DOMAIN pending :
    /\ pending[i].pc = "repo"
    /\ \E answer \in RepoAnswersTo(pending[i]) :
       \E g \in {afterRepo(pending[i], answer)} :
          /\ lastOp' = "getForks"
          /\ outcome' = IF g.threw THEN "error" ELSE IF g.done THEN "ok" ELSE "pending"
          /\ args' = <<pending[i].count>>
          /\ sent' = g.sent
          /\ recv' = g.recv
          /\ ret' = <<>>
          /\ repo' = g.repo
          /\ pending' = Resumed(i, g.calls)
          /\ UNCHANGED <<forksCursor, forksMap, repoQueries, lastPage, merged>>

ForksAfterPage ==
  \E i \in DOMAIN pending :
    /\ pending[i].pc = "forks"
    /\ \E answer \in ForkAnswers :
       \E g \in {afterPage(pending[i], answer)} :
          /\ lastOp' = "getForks"
          /\ outcome' = IF g.threw THEN "error" ELSE "ok"
          /\ args' = <<pending[i].count>>
          /\ sent' = <<>>
          /\ recv' = <<answer>>
          /\ ret' = g.ret
          /\ forksCursor' = g.forksCursor
          /\ lastPage' = IF answer.ok THEN Some(answer.repository.forks.pageInfo)
                         ELSE lastPage
          /\ pending' = Resumed(i, <<>>)
          /\ UNCHANGED <<repo, forksMap, repoQueries, merged>>

OverlapNext == ForksInvoke \/ ForksAfterRepo \/ ForksAfterPage

OverlapSpec == Init /\ [][OverlapNext]_vars

----------------------------------------------------------------------------
(* Properties *)

Exhausted(cursor) == cursor # None /\ ~Get(cursor).hasNextPage

RequestsOf(kind, s) == {i \in DOMAIN s : s[i].kind = kind}

\* C1 (as stated): across any sequence of calls, at most one repository
\* query is issued in total.
C1_AtMostOneRepoQueryEver == repoQueries <= 1

\* C1 (amended): no operation issues more than one repository query; once
\* a repository query has succeeded and its result is cached, no operation
\* issues another one, the cached value stays, and getRepo returns it.
C1_NoRequeryOnceCached ==
  [][ /\ Cardinality(RequestsOf("repo", sent')) <= 1
      /\ repo # None =>
           /\ RequestsOf("repo", sent') = {}
           /\ repoQueries' = repoQueries
           /\ repo' = repo
           /\ lastOp' = "getRepo" => outcome' = "ok" /\ ret' = repo ]_vars

C1_Witness ==
  /\ lastOp = "getRepo" /\ outcome = "ok"
  /\ repo # None /\ ret = repo
  /\ sent = <<>>
  /\ repoQueries = 1

\* C2: once the stored PageInfo has hasNextPage = false, canLoadMore() is
\* false in that state and after every further operation.
C2_ExhaustedIsAbsorbing ==
  [][ Exhausted(forksCursor) =>
        /\ ~canLoadMore
        /\ Exhausted(forksCursor') /\ ~canLoadMore'
        /\ lastOp' = "canLoadMore" => ret' = <<FALSE>> ]_vars

C2_Witness ==
  /\ Exhausted(forksCursor)
  /\ lastOp = "getForks" /\ outcome = "ok" /\ sent = <<>> /\ ret = <<>>
  /\ ~canLoadMore

\* C3: canLoadMore() is true exactly when no fork page has been fetched or
\* the last fetched page has hasNextPage = true, and the stored PageInfo is
\* not null once a page has been fetched.
C3_CanLoadMoreIff ==
  /\ canLoadMore <=> (lastPage = None \/ Get(lastPage).hasNextPage)
  /\ lastPage # None => forksCursor # None
  /\ lastOp = "canLoadMore" => ret = <<lastPage = None \/ Get(lastPage).hasNextPage>>

C3_Witness ==
  /\ lastOp = "canLoadMore" /\ ret = <<FALSE>>
  /\ lastPage # None /\ ~Get(lastPage).hasNextPage /\ Get(lastPage).endCursor # "null"

\* C4: a getForks call that finds the cached repository with
\* publicForkCount = 0 returns the empty sequence, issues no fork-listing
\* query and leaves the stored PageInfo and canLoadMore() as they were.
C4_NoPublicForksShortCircuit ==
  [][ (lastOp' = "getForks" /\ repo' # None /\ Get(repo').publicForkCount = 0) =>
        /\ outcome' = "ok"
        /\ ret' = <<>>
        /\ RequestsOf("forks", sent') = {}
        /\ forksCursor' = forksCursor
        /\ canLoadMore' = canLoadMore ]_vars

C4_Witness ==
  /\ lastOp = "getForks" /\ outcome = "ok"
  /\ repo # None /\ Get(repo).publicForkCount = 0
  /\ ret = <<>> /\ sent = <<>>
  /\ forksCursor = None /\ canLoadMore

\* C5: a successful getDiffs on a non-empty list returns a list of the same
\* length whose i-th element has the id of the i-th input.
C5_OrderAndLength ==
  (lastOp = "getDiffs" /\ outcome = "ok" /\ args # <<>>) =>
    /\ Len(ret) = Len(args)
    /\ \A i \in DOMAIN args : ret[i].id = args[i].id

C5_Witness ==
  /\ lastOp = "getDiffs" /\ outcome = "ok"
  /\ Len(args) = 2 /\ args[1].id = args[2].id
  /\ Len(ret) = 2 /\ ret[1].id = ret[2].id

\* C6: the divergence request of a batch of N forks holds exactly N
\* comparisons, the i-th under alias fork<i> with the head reference
\* owner:name:defaultBranch of input i, and on success the diff of result i
\* is the flattened comparison the response holds under alias fork<i>.
C6_AliasMatchesIndex ==
  lastOp = "getDiffs" =>
    /\ Cardinality(RequestsOf("diff", sent)) <= 1
    /\ outcome = "ok" /\ args # <<>> => RequestsOf("diff", sent) # {}
    /\ \A k \in RequestsOf("diff", sent) :
         LET subqueries == sent[k].document.forkQueries
         IN  /\ Len(subqueries) = Len(args)
             /\ \A i \in DOMAIN args :
                  /\ subqueries[i].alias = <<"fork", i - 1>>
                  /\ subqueries[i].headRef =
                       <<args[i].owner, args[i].name, args[i].defaultBranch>>
             /\ outcome = "ok" =>
                  \A i \in DOMAIN args :
                    ret[i].diff =
                      flattenDiff(Get(Get(recv[k].repository.ref)[<<"fork", i - 1>>]))

C6_Witness ==
  /\ lastOp = "getDiffs" /\ outcome = "ok"
  /\ Len(args) = 2 /\ args[1].id = "F2" /\ args[2].id = "F1"
  /\ ret[1].diff # ret[2].diff
  /\ ret[2].diff.aheadBy = 2

\* C7: the registry holds exactly one entry per fork id ever merged, and the
\* entry is the fork, with its score and diff, of the most recent successful
\* getDiffs call that included the id.
C7_LastWriteWins ==
  /\ {forksMap[i].key : i \in DOMAIN forksMap} = {f.id : f \in merged}
  /\ Len(forksMap) = Cardinality({f.id : f \in merged})
  /\ Len(forks) = Len(forksMap)
  /\ \A i \in DOMAIN forks :
       \E f \in merged :
         /\ f.id = forks[i].id
         /\ forks[i].forkScore = f.forkScore
         /\ forks[i].diff = f.diff
         /\ forks[i] = f
         /\ repo # None /\ f.forkScore = Some(score(f, Get(repo)))

\* F1 was merged before F2 and has now been merged again, alone
C7_Witness ==
  /\ Len(forksMap) = 2
  /\ forksMap[1].key = "F1" /\ forksMap[2].key = "F2"
  /\ lastOp = "getDiffs" /\ outcome = "ok"
  /\ Len(args) = 1 /\ args[1].id = "F1"
  /\ forksMap[1].value = ret[1]

\* C8: forks() returns all the registry's entries in non-increasing order
\* of score, an entry without a score counting as 0, and leaves the
\* registry unchanged.
C8_RankedForks ==
  [][ lastOp' = "forks" =>
        /\ \A i, j \in DOMAIN ret' :
             i < j => ScoreOrZero(ret'[i]) >= ScoreOrZero(ret'[j])
        /\ Len(ret') = Len(forksMap)
        /\ Range(ret') = {forksMap[i].value : i \in DOMAIN forksMap}
        /\ forksMap' = forksMap ]_vars

\* the sort moved the entry inserted last to the front
C8_Witness ==
  /\ lastOp = "forks"
  /\ Len(ret) = 2
  /\ ret[1] = forksMap[2].value /\ ret[2] = forksMap[1].value
  /\ ScoreOrZero(ret[1]) > ScoreOrZero(ret[2])

\* C9: a getDiffs call that fails leaves the registry as it was.
C9_FailedBatchMergesNothing ==
  [][ (lastOp' = "getDiffs" /\ outcome' = "error") => forksMap' = forksMap ]_vars

\* the response holds the first fork's comparison and lacks the second's
C9_Witness ==
  /\ lastOp = "getDiffs" /\ outcome = "error"
  /\ Len(args) = 2 /\ args[1].id # args[2].id
  /\ Len(forksMap) = 1
  /\ \E k \in RequestsOf("diff", sent) :
       /\ recv[k].ok /\ recv[k].repository.ref # None
       /\ Get(recv[k].repository.ref)[<<"fork", 0>>] # None
       /\ Get(recv[k].repository.ref)[<<"fork", 1>>] = None

\* C10: getDiffs on the empty list returns the empty list, issues no query
\* and leaves the registry, the cached repository and the PageInfo unchanged.
C10_EmptyBatchIsNoOp ==
  [][ (lastOp' = "getDiffs" /\ args' = <<>>) =>
        /\ outcome' = "ok"
        /\ ret' = <<>>
        /\ sent' = <<>>
        /\ repoQueries' = repoQueries
        /\ forksMap' = forksMap
        /\ repo' = repo
        /\ forksCursor' = forksCursor ]_vars

C10_Witness ==
  /\ lastOp = "getDiffs" /\ outcome = "ok"
  /\ args = <<>> /\ ret = <<>> /\ sent = <<>>
  /\ repo = None /\ repoQueries = 0

\* C11: getForks never changes the registry; the registry changes only in a
\* getDiffs call that succeeds, so every key of the registry is the id of a
\* fork some successful getDiffs returned.
C11_OnlyDiffsMerge ==
  [][ /\ lastOp' = "getForks" => forksMap' = forksMap
      /\ forksMap' # forksMap => lastOp' = "getDiffs" /\ outcome' = "ok"
      /\ \A i \in DOMAIN forksMap' : \E f \in merged' : f.id = forksMap'[i].key ]_vars

\* a page of two forks was listed and the registry is still empty
C11_Witness ==
  /\ lastOp = "getForks" /\ outcome = "ok"
  /\ Len(ret) = 2
  /\ forksMap = <<>> /\ forks = <<>>

\* the Repo values the engine has produced with flattenRepo
ReposProduced ==
  Range(repo) \cup (IF lastOp = "getForks" THEN Range(ret) ELSE {})

\* C12 (as stated): every Repo produced by flattenRepo has
\* privateForkCount = forkCount - publicForkCount and privateForkCount >= 0.
C12_PrivateForkCount ==
  \A r \in ReposProduced :
    /\ r.privateForkCount = r.forkCount - r.publicForkCount
    /\ r.privateForkCount >= 0

\* C13 (as stated): no operation issues more than one request.
C13_AtMostOneRoundTrip == Len(sent) <= 1

\* C13 (amended): an operation issues at most two requests, at most one of
\* them a repository query and at most one its own query; getRepo, forks and
\* canLoadMore issue at most one, and so does every operation once the
\* repository is cached; a second request comes after a repository query.
C13_RoundTripsPerCall ==
  [][ /\ Len(sent') <= 2
      /\ Cardinality(RequestsOf("repo", sent')) <= 1
      /\ Cardinality(RequestsOf("forks", sent') \cup RequestsOf("diff", sent')) <= 1
      /\ lastOp' \in {"getRepo", "forks", "canLoadMore"} => Len(sent') <= 1
      /\ repo # None => Len(sent') <= 1
      /\ Len(sent') = 2 => repo = None /\ sent'[1].kind = "repo" /\ recv'[1].ok ]_vars

C13_Witness ==
  /\ lastOp = "getForks" /\ outcome = "ok"
  /\ Len(sent) = 2
  /\ sent[1].kind = "repo" /\ sent[2].kind = "forks"
  /\ ret # <<>>

\* C14: a fork-listing query carries the cursor null when no page has been
\* received, otherwise the endCursor of the last page received; the stored
\* PageInfo is that of the last page received.
C14_CursorChain ==
  [][ /\ \A k \in RequestsOf("forks", sent') :
           sent'[k].variables.cursor =
             IF lastPage = None THEN "null" ELSE Get(lastPage).endCursor
      /\ \A k \in RequestsOf("forks", sent') :
           recv'[k].ok => forksCursor' = Some(recv'[k].repository.forks.pageInfo)
      /\ forksCursor' = lastPage' ]_vars

\* the query carried the cursor of the page before, and its page replaced it
C14_Witness ==
  /\ lastOp = "getForks" /\ outcome = "ok"
  /\ \E k \in RequestsOf("forks", sent) : sent[k].variables.cursor = "c1"
  /\ forksCursor = Some([hasNextPage |-> FALSE, endCursor |-> "c2"])

\* C15: once the repository is cached no operation changes it, and every
\* score in the registry is computed against it.
C15_RepoNeverChanges ==
  [][ repo # None =>
        /\ repo' = repo
        /\ \A i \in DOMAIN forksMap' :
             forksMap'[i].value.forkScore =
               Some(score(forksMap'[i].value, Get(repo))) ]_vars

\* the repository came with a getForks call, and later batches were scored
C15_Witness ==
  /\ repo # None /\ repoQueries = 1
  /\ forksCursor # None
  /\ lastOp = "getDiffs" /\ outcome = "ok" /\ sent # <<>>
  /\ Len(forksMap) = 2

\* C17: a getForks call that throws leaves the stored PageInfo and the
\* registry as they were, so the next fork-listing query carries the same
\* cursor.
C17_FailedPageKeepsCursor ==
  [][ /\ (lastOp' = "getForks" /\ outcome' = "error") =>
           /\ forksCursor' = forksCursor
           /\ forksMap' = forksMap
           /\ lastPage' = lastPage
           /\ sent' # <<>> /\ ~recv'[Len(recv')].ok
      /\ \A k \in RequestsOf("forks", sent') :
           sent'[k].variables.cursor =
             IF forksCursor = None THEN "null" ELSE Get(forksCursor).endCursor ]_vars

\* the query after page c1 failed and the cursor is still c1
C17_Witness ==
  /\ lastOp = "getForks" /\ outcome = "error"
  /\ \E k \in RequestsOf("forks", sent) :
       sent[k].variables.cursor = "c1" /\ ~recv[k].ok
  /\ forksCursor # None /\ Get(forksCursor).endCursor = "c1"

\* C18: getForks called while canLoadMore() is false returns the empty
\* sequence, issues no request and changes nothing.
C18_ExhaustedCallIsNoOp ==
  [][ (~canLoadMore /\ lastOp' = "getForks") =>
        /\ outcome' = "ok"
        /\ ret' = <<>>
        /\ sent' = <<>> /\ recv' = <<>>
        /\ repoQueries' = repoQueries
        /\ repo' = repo
        /\ forksCursor' = forksCursor
        /\ forksMap' = forksMap ]_vars

C18_Witness ==
  /\ ~canLoadMore
  /\ lastOp = "getForks" /\ outcome = "ok" /\ args = <<DefaultCount>>
  /\ ret = <<>> /\ sent = <<>>
  /\ forksMap # <<>>

\* C19: every entry of the registry has a score, a diff and an extended
\* info, and the repository is cached whenever the registry is not empty.
C19_EntriesAreScored ==
  /\ \A i \in DOMAIN forksMap :
       /\ {"forkScore", "diff", "extendedInfo"} \subseteq DOMAIN forksMap[i].value
       /\ forksMap[i].value.forkScore # None
       /\ forksMap[i].key = forksMap[i].value.id
  /\ \A i \in DOMAIN forks :
       {"forkScore", "diff", "extendedInfo"} \subseteq DOMAIN forks[i]
  /\ forksMap # <<>> => repo # None

\* forks were listed and only the one that was diffed is in the registry
C19_Witness ==
  /\ lastOp = "forks" /\ Len(ret) = 1
  /\ ret[1].forkScore # None
  /\ lastPage # None

\* C16 (as stated): a caller that calls getForks while canLoadMore() is
\* true reaches a state where canLoadMore() is false.
C16_GateLoopTerminates == <>(~canLoadMore)

\* the same caller does reach it whenever the upstream has public forks
C16_TerminatesWithPublicForks ==
  (repo # None /\ Get(repo).publicForkCount > 0) ~> ~canLoadMore

\* C20 (as stated): with overlapping getForks calls, once the stored
\* PageInfo has hasNextPage = false it never has hasNextPage = true again.
C20_ExhaustedForGood ==
  [][ Exhausted(forksCursor) => Exhausted(forksCursor') /\ ~canLoadMore' ]_vars

\* C20 (amended): once the stored PageInfo has hasNextPage = false and no
\* getForks call is suspended, no call is suspended again and the PageInfo
\* keeps hasNextPage = false; it gets hasNextPage = true again only from the
\* page of a call that was suspended when it became false.
C20_ExhaustedOnceSettled ==
  [][ /\ (Exhausted(forksCursor) /\ pending = <<>>) =>
           /\ pending' = <<>>
           /\ Exhausted(forksCursor') /\ ~canLoadMore'
           /\ sent' = <<>>
      /\ (Exhausted(forksCursor) /\ ~Exhausted(forksCursor')) =>
           /\ \E i \in DOMAIN pending : pending[i].pc = "forks"
           /\ Len(pending') < Len(pending) ]_vars

\* the last of two overlapping calls has returned its page, the listing is
\* exhausted and nothing is suspended
C20_Witness ==
  /\ Exhausted(forksCursor) /\ pending = <<>>
  /\ lastOp = "getForks" /\ outcome = "ok"
  /\ sent = <<>> /\ recv # <<>> /\ ret # <<>>
  /\ repoQueries = 2 /\ repo # None

====
